---- MODULE Spec2Model ----
(***************************************************************************)
(* Smart Farming Advisory backend (src/unnamed/part_000): the rule lookup   *)
(* behind POST /api/recommend, the rules file it reads on every request,    *)
(* and the HTTP exchange around it.                                         *)
(*                                                                          *)
(* JavaScript values are tagged records: [t |-> "undefined"],               *)
(* [t |-> "null"], [t |-> "string", v |-> <<characters>>],                  *)
(* [t |-> "array", v |-> <<elements>>] and [t |-> "object", ...fields].     *)
(* A string is the sequence of its characters, so that toLowerCase is a     *)
(* real conversion; the long literals of the fallback payload, which the    *)
(* code never transforms, are kept as one symbol each.                      *)
(*                                                                          *)
(* Spec is the backend with rules.json edited between exchanges; SpecReload *)
(* is the backend while rules.json is replaced or rewritten under it;       *)
(* SpecUpload and SpecResults are the PlantCareApp page                     *)
(* (src/4/frontend/script.js): the image upload, and the display of a       *)
(* detection result; SpecAnalyze is the same page sending an image to       *)
(* /api/detect. SpecAdvisory is the Advisory form in front of the backend,  *)
(* SpecDetector the LeafDiseaseDetector component, and SpecKb the disease   *)
(* knowledge base (list page, details page, getDiseases).                   *)
(***************************************************************************)
EXTENDS Integers, Sequences, FiniteSets, TLC

\* the backend: rules.json, and one HTTP exchange
VARIABLES rulesFile, inflight, request, response, tableLoaded
\* rules.json under a writer: the write in progress, and what an observer of
\* the exchanges records (what loadRules read, the file at process start, one
\* earlier exchange)
VARIABLES writing, loadedFrom, startFile, earlier
\* the PlantCareApp page (src/4/frontend/script.js): the object's fields, the
\* elements of the page it writes, the FileReaders at work, the alert on
\* screen, and the last display call with its argument
VARIABLES app, dom, readers, alerted, displayed
\* the other pages: the Advisory form (src/2/frontend/src/pages/Advisory.jsx)
VARIABLES advisory
\* LeafDiseaseDetector (src/unnamed/part_004): its state, and whether the
\* request of upload() is on its way
VARIABLES detector, detecting
\* PlantCareApp.analyzeImage: the requests to /api/detect on their way, and
\* whether its catch is at its alert
VARIABLES analysis
\* the disease knowledge base (src/src/modules, src/unnamed/part_006): the
\* data set, the route, the list page's state and what is rendered
VARIABLES kb

serverVars == <<rulesFile, inflight, request, response, tableLoaded>>
reloadVars == <<writing, loadedFrom, startFile, earlier>>
appVars == <<app, dom, readers, alerted, displayed>>

clientVars == <<advisory, detector, detecting, analysis, kb>>

vars == <<serverVars, reloadVars, appVars, clientVars>>

(* ------------------------------ bounds --------------------------------- *)

\* longest rule table (number of entries of the "rules" array)
MaxRules == 2
\* longest soilType / crop string of a request
MaxLen == 1

(* --------------------------- JavaScript values -------------------------- *)

Undefined == [t |-> "undefined"]
Null == [t |-> "null"]
Str(s) == [t |-> "string", v |-> s]
Arr(es) == [t |-> "array", v |-> es]
EmptyObject == [t |-> "object"]

\* !!v : undefined, null and '' are falsy; objects, arrays and other strings are truthy
Truthy(v) ==
    /\ v.t \notin {"undefined", "null"}
    /\ (v.t = "string" => v.v # <<>>)

\* o.name on a value that is neither null nor undefined: a missing property
\* reads as undefined
Get(o, name) == IF name \in DOMAIN o THEN o[name] ELSE Undefined

\* a || b
OrElse(a, b) == IF Truthy(a) THEN a ELSE b

UpperLetters == <<"A", "B", "C", "D", "E", "F", "G", "H", "I", "J", "K", "L", "M",
                  "N", "O", "P", "Q", "R", "S", "T", "U", "V", "W", "X", "Y", "Z">>
LowerLetters == <<"a", "b", "c", "d", "e", "f", "g", "h", "i", "j", "k", "l", "m",
                  "n", "o", "p", "q", "r", "s", "t", "u", "v", "w", "x", "y", "z">>

LowerChar(c) ==
    IF \E i \in DOMAIN UpperLetters : UpperLetters[i] = c
    THEN LowerLetters[CHOOSE i \in DOMAIN UpperLetters : UpperLetters[i] = c]
    ELSE c

\* String.prototype.toLowerCase, character by character
ToLowerCase(s) == [i \in 1..Len(s) |-> LowerChar(s[i])]

(* ------------------------------- inputs -------------------------------- *)

Letters == {"a", "A"}

Strings(n) == UNION {[1..k -> Letters] : k \in 0..n}

\* soilType / crop of a request body: absent, or any string up to MaxLen
FieldValues == {Undefined} \cup {Str(s) : s \in Strings(MaxLen)}

\* region of a request body: absent, empty, or free text with capitals and spaces
Regions == {Undefined, Str(<<>>), Str(<<" ", "P", "b">>)}

Bodies ==
    {Undefined} \cup
    {[t |-> "object", soilType |-> s, crop |-> c, region |-> r] :
        s \in FieldValues, c \in FieldValues, r \in Regions}

\* the canonical lower-case (soil, crop) key that queries "a" / "A" resolve to
KeyAA == << <<"a">>, <<"a">> >>
\* keys an editor of rules.json wrote with a capital in soil or in crop
KeyUpperSoil == << <<"A">>, <<"a">> >>
KeyUpperCrop == << <<"a">>, <<"A">> >>
\* another canonical key, for a longer soil name
KeyLong == << <<"a", "a">>, <<"a">> >>

\* advisory texts of a rule; notes is optional
Payloads ==
    {[sowingTime |-> Str(<<"J", "u", "n">>), irrigation |-> Str(<<"D", "l", "y">>),
      fertilizer |-> Str(<<"U", "r", "e", "a">>), notes |-> Undefined],
     [sowingTime |-> Str(<<"O", "c", "t">>), irrigation |-> Str(<<"W", "k", "l", "y">>),
      fertilizer |-> Str(<<"D", "A", "P">>), notes |-> Str(<<"d", "r", "y">>)],
     [sowingTime |-> Str(<<"O", "c", "t">>), irrigation |-> Str(<<"D", "l", "y">>),
      fertilizer |-> Str(<<"D", "A", "P">>), notes |-> Str(<<>>)]}

\* a rule object of rules.json; a rule that omits notes has no notes property
Rule(k, p) ==
    IF p.notes = Undefined
    THEN [t |-> "object", soil |-> Str(k[1]), crop |-> Str(k[2]),
          sowingTime |-> p.sowingTime, irrigation |-> p.irrigation,
          fertilizer |-> p.fertilizer]
    ELSE [t |-> "object", soil |-> Str(k[1]), crop |-> Str(k[2]),
          sowingTime |-> p.sowingTime, irrigation |-> p.irrigation,
          fertilizer |-> p.fertilizer, notes |-> p.notes]

PayloadNoNotes == CHOOSE p \in Payloads : p.notes = Undefined
PayloadNotes == CHOOSE p \in Payloads : Truthy(p.notes)
PayloadEmptyNotes == CHOOSE p \in Payloads : p.notes = Str(<<>>)

\* the rules a table is built from: every payload under the canonical key (so
\* that a table can hold duplicates of a key with different texts), and one
\* rule under each other key
Rules ==
    {Rule(KeyAA, p) : p \in Payloads}
    \cup {Rule(KeyUpperSoil, PayloadNotes), Rule(KeyUpperCrop, PayloadNoNotes),
          Rule(KeyLong, PayloadEmptyNotes)}

\* what the "rules" array of rules.json can hold: rule objects and null
Entries == Rules \cup {Null}

Tables == UNION {[1..n -> Entries] : n \in 0..MaxRules}

RulesDoc(r) == [t |-> "object", rules |-> r]

\* JSON documents that are not {"rules": [...]}: null, a top-level array of
\* rules, an object without "rules", and "rules" holding null, '' or text
OddDocuments ==
    {Null,
     Arr(<<Rule(KeyAA, PayloadNoNotes)>>),
     EmptyObject, RulesDoc(Null), RulesDoc(Str(<<>>)), RulesDoc(Str(<<"a">>))}

Json(v) == [kind |-> "json", value |-> v]
\* rules.json does not exist or cannot be read
Missing == [kind |-> "missing"]
\* rules.json holds text that is not JSON
Garbage == [kind |-> "garbage"]

Files ==
    {Missing, Garbage} \cup {Json(v) : v \in OddDocuments}
    \cup {Json(RulesDoc(Arr(es))) : es \in Tables}

(* ------------------------------ the server ----------------------------- *)

\* loadRules with the try/catch left out: the failure reaches the caller, which
\* then has no rule set to read
loadRulesNoCatch(file) ==
    IF file.kind = "json" THEN file.value ELSE Null

\* loadRules: the parsed content of rules.json, or { rules: [] } when reading
\* or parsing it throws
loadRules(file) ==
    IF file.kind = "json" THEN file.value ELSE RulesDoc(Arr(<<>>))

\* String(x) of a string
String(x) == x.v

\* a normalisation that forgets toLowerCase
normalizeAsIs(x) == String(x)

\* String(x).toLowerCase()
normalize(x) == ToLowerCase(String(x))

\* what evaluating an expression yields when it throws a TypeError
TypeError == [t |-> "TypeError"]

\* a predicate that forgets the crop
RuleMatchesSoilOnly(r, normalizedSoil, normalizedCrop) ==
    Get(r, "soil") = Str(normalizedSoil)

\* a predicate that lowercases the rule's side as well
RuleMatchesIgnoringCase(r, normalizedSoil, normalizedCrop) ==
    /\ Get(r, "soil").t = "string"
    /\ Get(r, "crop").t = "string"
    /\ ToLowerCase(Get(r, "soil").v) = normalizedSoil
    /\ ToLowerCase(Get(r, "crop").v) = normalizedCrop

\* the predicate of the find: r.soil === normalizedSoil && r.crop === normalizedCrop
RuleMatches(r, normalizedSoil, normalizedCrop) ==
    /\ Get(r, "soil") = Str(normalizedSoil)
    /\ Get(r, "crop") = Str(normalizedCrop)

\* a search that keeps the last element the predicate accepts
RECURSIVE findLast(_, _, _, _)
findLast(es, i, normalizedSoil, normalizedCrop) ==
    IF i > Len(es) THEN Undefined
    ELSE IF es[i].t = "null" THEN TypeError
    ELSE LET later == findLast(es, i + 1, normalizedSoil, normalizedCrop)
         IN  IF later # Undefined THEN later
             ELSE IF RuleMatches(es[i], normalizedSoil, normalizedCrop) THEN es[i]
             ELSE Undefined

\* Array.prototype.find from index i on: the first element the predicate
\* accepts, undefined when there is none; reading r.soil of a null element throws
RECURSIVE find(_, _, _, _)
find(es, i, normalizedSoil, normalizedCrop) ==
    IF i > Len(es) THEN Undefined
    ELSE IF es[i].t = "null" THEN TypeError
    ELSE IF RuleMatches(es[i], normalizedSoil, normalizedCrop) THEN es[i]
    ELSE find(es, i + 1, normalizedSoil, normalizedCrop)

BadRequest ==
    [status |-> 400, threw |-> FALSE,
     body |-> [t |-> "object",
               error |-> Str(<<"Missing required fields: soilType and crop">>)]]

\* an exception that leaves the handler: the framework answers 500
Thrown == [status |-> 500, threw |-> TRUE, body |-> Undefined]

Ok(b) == [status |-> 200, threw |-> FALSE, body |-> b]

GenericRecommendation ==
    [t |-> "object",
     sowingTime |-> Str(<<"Consult local agri-extension for optimal window">>),
     irrigation |-> Str(<<"1-2 times/week depending on rainfall">>),
     fertilizer |-> Str(<<"Balanced NPK (e.g., 10-26-26) at recommended doses">>),
     notes |-> Str(<<"No exact match found. Displaying generic guidance.">>)]

\* a matched recommendation that copies notes without the "|| null"
MatchedRecommendationRawNotes(match) ==
    [t |-> "object",
     sowingTime |-> Get(match, "sowingTime"),
     irrigation |-> Get(match, "irrigation"),
     fertilizer |-> Get(match, "fertilizer"),
     notes |-> Get(match, "notes")]

\* the recommendation built from the matched rule; JSON drops a property whose
\* value is undefined
MatchedRecommendation(match) ==
    [t |-> "object",
     sowingTime |-> Get(match, "sowingTime"),
     irrigation |-> Get(match, "irrigation"),
     fertilizer |-> Get(match, "fertilizer"),
     notes |-> OrElse(Get(match, "notes"), Null)]

\* a response that normalises the region like the other two fields
respondLowerRegion(scope, match) ==
    [t |-> "object",
     soilType |-> Str(scope.normalizedSoil),
     crop |-> Str(scope.normalizedCrop),
     region |-> IF Truthy(scope.region) THEN Str(ToLowerCase(scope.region.v))
                ELSE Str(<<>>),
     recommendation |-> IF ~Truthy(match) THEN GenericRecommendation
                        ELSE MatchedRecommendation(match)]

\* a response whose notes depend on the region ("region can influence text notes")
respondRegionNotes(scope, match) ==
    [t |-> "object",
     soilType |-> Str(scope.normalizedSoil),
     crop |-> Str(scope.normalizedCrop),
     region |-> OrElse(scope.region, Str(<<>>)),
     recommendation |->
         IF ~Truthy(match) THEN GenericRecommendation
         ELSE [MatchedRecommendation(match) EXCEPT
                  !.notes = IF Truthy(scope.region) THEN scope.region ELSE @]]

\* a response that echoes soilType and crop as they were submitted
respondAsSubmitted(scope, match) ==
    [t |-> "object",
     soilType |-> scope.soilType,
     crop |-> scope.crop,
     region |-> OrElse(scope.region, Str(<<>>)),
     recommendation |-> IF ~Truthy(match) THEN GenericRecommendation
                        ELSE MatchedRecommendation(match)]

\* the body of the 200 response: the fallback branch (!match) and the matched
\* branch; scope holds the handler's locals
respond(scope, match) ==
    [t |-> "object",
     soilType |-> Str(scope.normalizedSoil),
     crop |-> Str(scope.normalizedCrop),
     region |-> OrElse(scope.region, Str(<<>>)),
     recommendation |-> IF ~Truthy(match) THEN GenericRecommendation
                        ELSE MatchedRecommendation(match)]

\* the handler from the loaded rules on: normalise, find, respond
answer(loaded, soilType, crop, region) ==
    LET scope == [soilType |-> soilType, crop |-> crop, region |-> region,
                  normalizedSoil |-> normalize(soilType),
                  normalizedCrop |-> normalize(crop)]
    IN  IF loaded.t \in {"null", "undefined"} THEN Thrown
        ELSE LET rules == OrElse(Get(loaded, "rules"), Arr(<<>>))
             IN  IF rules.t # "array" THEN Thrown
                 ELSE LET match == find(rules.v, 1, scope.normalizedSoil,
                                        scope.normalizedCrop)
                      IN  IF match = TypeError THEN Thrown
                          ELSE Ok(respond(scope, match))

\* the part of the handler after validation: load, then answer
resolve(file, soilType, crop, region) ==
    answer(loadRules(file), soilType, crop, region)

\* a handler that requires the soil type only
recommendSoilOnly(file, reqBody) ==
    LET b == OrElse(reqBody, EmptyObject)
        soilType == Get(b, "soilType")
        crop == OrElse(Get(b, "crop"), Str(<<>>))
        region == Get(b, "region")
    IN  IF ~Truthy(soilType)
        THEN [res |-> BadRequest, loaded |-> FALSE]
        ELSE [res |-> resolve(file, soilType, crop, region), loaded |-> TRUE]

\* app.post('/api/recommend'): the response, and whether loadRules was called
recommend(file, reqBody) ==
    LET b == OrElse(reqBody, EmptyObject)
        soilType == Get(b, "soilType")
        crop == Get(b, "crop")
        region == Get(b, "region")
    IN  IF ~Truthy(soilType) \/ ~Truthy(crop)
        THEN [res |-> BadRequest, loaded |-> FALSE]
        ELSE [res |-> resolve(file, soilType, crop, region), loaded |-> TRUE]

\* app.get('/api/health')
health == Ok([t |-> "object", status |-> Str(<<"ok">>)])

(* ------------------------------ the system ----------------------------- *)

NoRequest == [route |-> "none"]
NoResponse == [status |-> 0, threw |-> FALSE, body |-> Undefined]

\* no content of rules.json is recorded
NoFile == [kind |-> "none"]
\* no write of rules.json is in progress
NoWrite == [old |-> NoFile, new |-> NoFile]
\* the handler has not run in this exchange
NotLoaded == [file |-> NoFile, complete |-> {}]
\* no exchange is remembered
NoExchange == [file |-> NoFile, body |-> Undefined, res |-> NoResponse]

\* nobody writes rules.json and nothing is recorded yet
ReloadIdle ==
    /\ writing = NoWrite
    /\ loadedFrom = NotLoaded
    /\ earlier = NoExchange

\* the page as it is served, before any script has run: the upload area shown,
\* no preview, Analyze disabled, the upload section in front, no result yet
EmptyPage ==
    [uploadArea |-> "block", imagePreview |-> "none", previewImage |-> "",
     imageInput |-> "", analyzeBtn |-> [disabled |-> TRUE],
     uploadSection |-> "block", loadingSection |-> "none",
     resultsSection |-> "none",
     form |-> [cropType |-> "", growthStage |-> "", location |-> "",
               language |-> "en"],
     diseaseName |-> "", confidenceText |-> "",
     confidenceFill |-> [width |-> "", className |-> {"confidence-fill"}],
     organicList |-> <<>>, chemicalList |-> <<>>,
     organicTreatments |-> "none", chemicalTreatments |-> "none",
     heatmapContainer |-> "none", heatmapImage |-> "", summaryText |-> "",
     warningsSection |-> "none", warningsList |-> <<>>]

\* no alert is on screen
NoAlert == <<>>

\* the knowledge base is not open
NoKb == [page |-> "none"]

\* no display method has been called
NoDisplay ==
    [op |-> "none", arg |-> Undefined, threw |-> FALSE, overEarlier |-> FALSE]

\* the Advisory component as first rendered: the useState initial values, and
\* no submission yet
AdvisoryStart ==
    [soilType |-> Str(<<>>), crop |-> Str(<<>>), region |-> Str(<<>>),
     loading |-> FALSE, error |-> Str(<<>>), result |-> Null,
     everSubmitted |-> FALSE]

\* LeafDiseaseDetector as first rendered; sinceReset records that reset was
\* pressed and the user has neither picked a file nor pressed Analyze since
DetectorStart ==
    [file |-> Null, preview |-> "", error |-> "", loading |-> FALSE,
     result |-> Null, progressText |-> "", sinceReset |-> FALSE]

\* the other pages as first rendered
ClientIdle ==
    /\ advisory = AdvisoryStart
    /\ detector = DetectorStart
    /\ detecting = FALSE
    /\ analysis = [pending |-> 0, failing |-> FALSE]
    /\ kb = NoKb

\* new PlantCareApp() on the page as served
AppIdle ==
    /\ app = [currentImage |-> Null]
    /\ dom = EmptyPage
    /\ readers = {}
    /\ alerted = NoAlert
    /\ displayed = NoDisplay

\* the server has started and no request has arrived
ServerIdle ==
    /\ inflight = NoRequest
    /\ request = NoRequest
    /\ response = NoResponse
    /\ tableLoaded = FALSE

Init ==
    /\ rulesFile \in Files
    /\ ServerIdle
    /\ ReloadIdle
    /\ startFile = NoFile
    /\ AppIdle
    /\ ClientIdle

\* a client posts a body to /api/recommend
SendRecommend(b) ==
    /\ inflight = NoRequest
    /\ response = NoResponse
    /\ inflight' = [route |-> "recommend", body |-> b]
    /\ UNCHANGED <<rulesFile, request, response, tableLoaded>>

\* a client gets /api/health
SendHealth ==
    /\ inflight = NoRequest
    /\ response = NoResponse
    /\ inflight' = [route |-> "health"]
    /\ UNCHANGED <<rulesFile, request, response, tableLoaded>>

\* a handler that writes a default rules.json back when the file could not be
\* read or parsed
HandleRecommendRepairsFile ==
    /\ inflight.route = "recommend"
    /\ LET out == recommend(rulesFile, inflight.body)
       IN  /\ response' = out.res
           /\ tableLoaded' = out.loaded
           /\ rulesFile' = IF out.loaded /\ rulesFile.kind # "json"
                           THEN Json(RulesDoc(Arr(<<>>)))
                           ELSE rulesFile
    /\ request' = inflight
    /\ inflight' = NoRequest

\* a handler that keeps the table it loaded when the process started
HandleRecommendAtStart ==
    /\ inflight.route = "recommend"
    /\ LET out == recommend(startFile, inflight.body)
       IN  /\ response' = out.res
           /\ tableLoaded' = out.loaded
    /\ request' = inflight
    /\ inflight' = NoRequest
    /\ UNCHANGED rulesFile

\* a handler that answers a body it has answered before with 304 Not Modified
HandleRecommendOnce ==
    /\ inflight.route = "recommend"
    /\ LET out == recommend(rulesFile, inflight.body)
       IN  /\ response' = IF earlier # NoExchange /\ earlier.body = inflight.body
                          THEN [status |-> 304, threw |-> FALSE, body |-> Undefined]
                          ELSE out.res
           /\ tableLoaded' = out.loaded
    /\ request' = inflight
    /\ inflight' = NoRequest
    /\ UNCHANGED rulesFile

\* the server runs the /api/recommend handler on the request in flight
HandleRecommend ==
    /\ inflight.route = "recommend"
    /\ LET out == recommend(rulesFile, inflight.body)
       IN  /\ response' = out.res
           /\ tableLoaded' = out.loaded
    /\ request' = inflight
    /\ inflight' = NoRequest
    /\ UNCHANGED rulesFile

\* the server runs the /api/health handler on the request in flight
HandleHealth ==
    /\ inflight.route = "health"
    /\ response' = health
    /\ tableLoaded' = FALSE
    /\ request' = inflight
    /\ inflight' = NoRequest
    /\ UNCHANGED rulesFile

\* the client has read the response; the exchange is over
Receive ==
    /\ response # NoResponse
    /\ response' = NoResponse
    /\ request' = NoRequest
    /\ tableLoaded' = FALSE
    /\ UNCHANGED <<rulesFile, inflight>>

\* rules.json is rewritten between exchanges (README: "Customize rules")
EditRules(f) ==
    /\ inflight = NoRequest
    /\ response = NoResponse
    /\ f # rulesFile
    /\ rulesFile' = f
    /\ UNCHANGED <<inflight, request, response, tableLoaded>>

\* the edits of one step: another kind of content, one entry appended to the
\* table, or its last entry removed
EditsOf(file) ==
    {Missing, Garbage} \cup {Json(v) : v \in OddDocuments}
    \cup {Json(RulesDoc(Arr(<<>>)))}
    \cup (IF file.kind = "json" /\ file.value.t = "object"
             /\ Get(file.value, "rules").t = "array"
          THEN LET es == file.value.rules.v
               IN  (IF Len(es) < MaxRules
                    THEN {Json(RulesDoc(Arr(Append(es, e)))) : e \in Entries}
                    ELSE {})
                   \cup (IF Len(es) > 0
                         THEN {Json(RulesDoc(Arr(SubSeq(es, 1, Len(es) - 1))))}
                         ELSE {})
          ELSE {})

Next ==
    \/ (\E b \in Bodies : SendRecommend(b)) /\ UNCHANGED <<reloadVars, appVars, clientVars>>
    \/ SendHealth /\ UNCHANGED <<reloadVars, appVars, clientVars>>
    \/ HandleRecommend /\ UNCHANGED <<reloadVars, appVars, clientVars>>
    \/ HandleHealth /\ UNCHANGED <<reloadVars, appVars, clientVars>>
    \/ Receive /\ UNCHANGED <<reloadVars, appVars, clientVars>>
    \/ (\E f \in EditsOf(rulesFile) : EditRules(f)) /\ UNCHANGED <<reloadVars, appVars, clientVars>>

Spec == Init /\ [][Next]_vars

(* ----------------------- rules.json under a writer --------------------- *)
(* The handler is synchronous (readFileSync to res.json in one turn of the  *)
(* event loop), so it is one step; whoever edits rules.json is another      *)
(* process and its write is not: a file rewritten in place is first         *)
(* truncated and then filled, and a reader in between sees a prefix of the  *)
(* new text, which is not JSON. A file replaced by rename changes in one    *)
(* step.                                                                    *)

ReloadRuleNoNotes == Rule(KeyAA, PayloadNoNotes)
ReloadRuleNotes == Rule(KeyAA, PayloadNotes)

\* the versions of rules.json a writer moves between
ReloadFiles ==
    {Missing,
     Json(RulesDoc(Arr(<<ReloadRuleNoNotes>>))),
     Json(RulesDoc(Arr(<<ReloadRuleNotes>>))),
     Json(RulesDoc(Arr(<<ReloadRuleNotes, ReloadRuleNoNotes>>)))}

\* the requests sent meanwhile: two spellings of the stored key, one of them
\* with a region, and a body without crop
ReloadBodies ==
    {[t |-> "object", soilType |-> Str(<<"a">>), crop |-> Str(<<"a">>),
      region |-> Undefined],
     [t |-> "object", soilType |-> Str(<<"A">>), crop |-> Str(<<"a">>),
      region |-> Str(<<" ", "P", "b">>)],
     [t |-> "object", soilType |-> Str(<<"a">>), crop |-> Undefined,
      region |-> Undefined]}

\* the versions of rules.json that are complete when the handler runs: the
\* file itself, or the old and the new one of the write in progress
CompleteVersions ==
    IF writing = NoWrite THEN {rulesFile} ELSE {writing.old, writing.new}

\* the handler runs; the observer notes what rules.json held at that moment
ServeRecommend ==
    /\ HandleRecommend
    /\ loadedFrom' = [file |-> rulesFile, complete |-> CompleteVersions]
    /\ UNCHANGED <<writing, startFile, earlier>>

ServeHealth ==
    /\ HandleHealth
    /\ loadedFrom' = NotLoaded
    /\ UNCHANGED <<writing, startFile, earlier>>

\* the client reads the response; the observer may keep the exchange
Collect ==
    /\ Receive
    /\ loadedFrom' = NotLoaded
    /\ earlier' \in {earlier} \cup
           (IF request.route = "recommend"
            THEN {[file |-> loadedFrom.file, body |-> request.body,
                   res |-> response]}
            ELSE {})
    /\ UNCHANGED <<writing, startFile>>

\* rules.json is replaced in one step (a rename over it, or its removal)
ReplaceRules(f) ==
    /\ writing = NoWrite
    /\ f # rulesFile
    /\ rulesFile' = f
    /\ UNCHANGED <<inflight, request, response, tableLoaded>>
    /\ UNCHANGED reloadVars

\* rules.json is opened for rewriting in place: it holds a prefix of the new text
BeginWrite(f) ==
    /\ writing = NoWrite
    /\ f # rulesFile
    /\ f # Missing
    /\ writing' = [old |-> rulesFile, new |-> f]
    /\ rulesFile' = Garbage
    /\ UNCHANGED <<inflight, request, response, tableLoaded>>
    /\ UNCHANGED <<loadedFrom, startFile, earlier>>

\* the write in place is complete
EndWrite ==
    /\ writing # NoWrite
    /\ rulesFile' = writing.new
    /\ writing' = NoWrite
    /\ UNCHANGED <<inflight, request, response, tableLoaded>>
    /\ UNCHANGED <<loadedFrom, startFile, earlier>>

\* the backend is restarted (README: "Restart backend if running"): the
\* process keeps nothing between requests, so only the record of the file at
\* its start changes
Restart ==
    /\ ServerIdle
    /\ startFile' = rulesFile
    /\ UNCHANGED serverVars
    /\ UNCHANGED <<writing, loadedFrom, earlier>>

InitReload ==
    /\ rulesFile \in ReloadFiles
    /\ ServerIdle
    /\ ReloadIdle
    /\ startFile = rulesFile
    /\ AppIdle
    /\ ClientIdle

NextReload ==
    \/ (\E b \in ReloadBodies : SendRecommend(b)) /\ UNCHANGED <<reloadVars, appVars, clientVars>>
    \/ SendHealth /\ UNCHANGED <<reloadVars, appVars, clientVars>>
    \/ ServeRecommend /\ UNCHANGED <<appVars, clientVars>>
    \/ ServeHealth /\ UNCHANGED <<appVars, clientVars>>
    \/ Collect /\ UNCHANGED <<appVars, clientVars>>
    \/ (\E f \in ReloadFiles : ReplaceRules(f)) /\ UNCHANGED <<appVars, clientVars>>
    \/ (\E f \in ReloadFiles : BeginWrite(f)) /\ UNCHANGED <<appVars, clientVars>>
    \/ EndWrite /\ UNCHANGED <<appVars, clientVars>>
    \/ Restart /\ UNCHANGED <<appVars, clientVars>>

SpecReload == InitReload /\ [][NextReload]_vars

(* ------------------------ PlantCareApp: the upload --------------------- *)
(* src/4/frontend/script.js. A File is its type and size; the data URL a    *)
(* FileReader makes of it is a value built from the file. alert() is modal:  *)
(* while it is on screen no other handler runs.                             *)

MaxReaders == 2

allowedTypes == {"image/jpeg", "image/jpg", "image/png"}
maxSize == 8 * 1024 * 1024

File(type, size) == [t |-> "file", type |-> type, size |-> size]

\* what a user may pick or drop: the allowed types, a GIF and a file with no
\* type, each at a small size, at the limit and one byte above it
FileTypes == allowedTypes \cup {"image/gif", ""}
FileSizes == {1, maxSize, maxSize + 1}
SelectableFiles == {File(ty, sz) : ty \in FileTypes, sz \in FileSizes}

\* reader.readAsDataURL(file): e.target.result
dataURL(file) == [scheme |-> "data", type |-> file.type, of |-> file]

\* the value of the file input after the user has chosen a file in it
ChosenPath == "C:\\fakepath\\leaf"

showImagePreview(d, imageSrc) ==
    [d EXCEPT !.uploadArea = "none", !.previewImage = imageSrc,
              !.imagePreview = "block"]

enableAnalyzeButton(d) == [d EXCEPT !.analyzeBtn.disabled = FALSE]

disableAnalyzeButton(d) == [d EXCEPT !.analyzeBtn.disabled = TRUE]

\* removeImage without its last line
removeImageKeepsButton(a, d) ==
    [app |-> [a EXCEPT !.currentImage = Null],
     dom |-> [d EXCEPT !.uploadArea = "block", !.imagePreview = "none",
                       !.imageInput = ""]]

\* removeImage(): the object and the page after it
removeImage(a, d) ==
    [app |-> [a EXCEPT !.currentImage = Null],
     dom |-> disableAnalyzeButton(
                 [d EXCEPT !.uploadArea = "block", !.imagePreview = "none",
                           !.imageInput = ""])]

showUpload(d) ==
    [d EXCEPT !.loadingSection = "none", !.resultsSection = "none",
              !.uploadSection = "block"]

resetToUpload(a, d) ==
    LET r == removeImage(a, d)
    IN  [app |-> r.app,
         dom |-> [showUpload(r.dom) EXCEPT !.form = EmptyPage.form]]

\* showError(message): the text of the alert
showError(message) == <<"Error: ", message>>

\* handleFileSelect with "file.size >= maxSize" for the size check
handleFileSelectBelowMax(file) ==
    IF file.type \notin allowedTypes
    THEN /\ alerted' = showError("Please select a valid image file (JPEG or PNG)")
         /\ UNCHANGED <<app, readers>>
    ELSE IF file.size >= maxSize
    THEN /\ alerted' = showError("File size must be less than 8MB")
         /\ UNCHANGED <<app, readers>>
    ELSE /\ Cardinality(readers \cup {file}) <= MaxReaders
         /\ readers' = readers \cup {file}
         /\ UNCHANGED <<app, alerted>>

\* handleFileSelect(file): an alert and nothing else for a file of another
\* type or above maxSize; otherwise a FileReader starts on the file
handleFileSelect(file) ==
    IF file.type \notin allowedTypes
    THEN /\ alerted' = showError("Please select a valid image file (JPEG or PNG)")
         /\ UNCHANGED <<app, readers>>
    ELSE IF file.size > maxSize
    THEN /\ alerted' = showError("File size must be less than 8MB")
         /\ UNCHANGED <<app, readers>>
    ELSE /\ Cardinality(readers \cup {file}) <= MaxReaders
         /\ readers' = readers \cup {file}
         /\ UNCHANGED <<app, alerted>>

\* what the user may have typed into the form
Forms ==
    {EmptyPage.form,
     [cropType |-> "tomato", growthStage |-> "flowering", location |-> "Pune",
      language |-> "hi"]}

\* imageInput 'change': the input holds the chosen file, then handleFileSelect
ChooseFile(f) ==
    /\ alerted = NoAlert
    /\ dom' = [dom EXCEPT !.imageInput = ChosenPath]
    /\ handleFileSelect(f)
    /\ UNCHANGED displayed

\* uploadArea 'drop': handleFileSelect on the dropped file
DropFile(f) ==
    /\ alerted = NoAlert
    /\ handleFileSelect(f)
    /\ UNCHANGED <<dom, displayed>>

\* reader.onload of a FileReader started by handleFileSelect
ReaderLoads(f) ==
    /\ alerted = NoAlert
    /\ f \in readers
    /\ readers' = readers \ {f}
    /\ app' = [app EXCEPT !.currentImage = f]
    /\ dom' = enableAnalyzeButton(showImagePreview(dom, dataURL(f)))
    /\ UNCHANGED <<alerted, displayed>>

\* the read fails: no onerror handler is set, nothing happens
ReaderFails(f) ==
    /\ alerted = NoAlert
    /\ f \in readers
    /\ readers' = readers \ {f}
    /\ UNCHANGED <<app, dom, alerted, displayed>>

\* removeImageBtn 'click'
ClickRemoveImage ==
    /\ alerted = NoAlert
    /\ LET r == removeImage(app, dom)
       IN  app' = r.app /\ dom' = r.dom
    /\ UNCHANGED <<readers, alerted, displayed>>

\* newAnalysisBtn 'click'
ClickNewAnalysis ==
    /\ alerted = NoAlert
    /\ LET r == resetToUpload(app, dom)
       IN  app' = r.app /\ dom' = r.dom
    /\ UNCHANGED <<readers, alerted, displayed>>

\* the user edits the optional fields of the form
FillForm(form) ==
    /\ alerted = NoAlert
    /\ form # dom.form
    /\ dom' = [dom EXCEPT !.form = form]
    /\ UNCHANGED <<app, readers, alerted, displayed>>

\* the user closes the alert
DismissAlert ==
    /\ alerted # NoAlert
    /\ alerted' = NoAlert
    /\ UNCHANGED <<app, dom, readers, displayed>>

\* the backend is not part of the page's behaviour here
BackendAside ==
    /\ rulesFile = Missing
    /\ ServerIdle
    /\ ReloadIdle
    /\ startFile = NoFile

InitUpload == BackendAside /\ AppIdle /\ ClientIdle

NextUpload ==
    \/ (\E f \in SelectableFiles : ChooseFile(f)) /\ UNCHANGED <<serverVars, reloadVars, clientVars>>
    \/ (\E f \in SelectableFiles : DropFile(f)) /\ UNCHANGED <<serverVars, reloadVars, clientVars>>
    \/ (\E f \in readers : ReaderLoads(f)) /\ UNCHANGED <<serverVars, reloadVars, clientVars>>
    \/ (\E f \in readers : ReaderFails(f)) /\ UNCHANGED <<serverVars, reloadVars, clientVars>>
    \/ ClickRemoveImage /\ UNCHANGED <<serverVars, reloadVars, clientVars>>
    \/ ClickNewAnalysis /\ UNCHANGED <<serverVars, reloadVars, clientVars>>
    \/ (\E form \in Forms : FillForm(form)) /\ UNCHANGED <<serverVars, reloadVars, clientVars>>
    \/ DismissAlert /\ UNCHANGED <<serverVars, reloadVars, clientVars>>

SpecUpload == InitUpload /\ [][NextUpload]_vars

(* ----------------------- PlantCareApp: the results ---------------------- *)
(* A confidence is kept in thousandths (700 is 0.7), so that                *)
(* Math.round(confidence * 100) is a real rounding; the samples stay clear  *)
(* of the halves, where the floating-point product decides.                 *)

MaxTreatments == 2

ConfidenceSamples == {0, 12, 494, 496, 499, 500, 504, 694, 696, 699, 700, 704, 996, 1000}

Diseases == {[name |-> "Early Blight", confidence |-> c] : c \in ConfidenceSamples}

\* Math.round(confidence * 100) of a confidence in thousandths
roundPercent(c) == (c + 5) \div 10

\* the text `${confidence}%`
Percent(n) == [n |-> n, unit |-> "%"]

LevelClasses == {"high", "medium", "low"}

\* displayDiseaseInfo without the reset of className
displayDiseaseInfoKeepsClass(d, disease) ==
    LET confidence == roundPercent(disease.confidence)
        level == IF confidence >= 70 THEN "high"
                 ELSE IF confidence >= 50 THEN "medium" ELSE "low"
    IN  [d EXCEPT !.diseaseName = disease.name,
                  !.confidenceText = Percent(confidence),
                  !.confidenceFill =
                      [width |-> Percent(confidence),
                       className |-> d.confidenceFill.className \cup {level}]]

displayDiseaseInfo(d, disease) ==
    LET confidence == roundPercent(disease.confidence)
        level == IF confidence >= 70 THEN "high"
                 ELSE IF confidence >= 50 THEN "medium" ELSE "low"
    IN  [d EXCEPT !.diseaseName = disease.name,
                  !.confidenceText = Percent(confidence),
                  !.confidenceFill =
                      [width |-> Percent(confidence),
                       className |-> {"confidence-fill"} \cup {level}]]

\* a treatment of the response: its type, and the safety object the card
\* reads (absent in a response that does not follow the documented schema)
Treatment(name, type, safety) ==
    [t |-> "object", name |-> name, type |-> type, safety |-> safety]

TreatmentSamples ==
    {Treatment("Neem oil", "organic", EmptyObject),
     Treatment("Compost tea", "organic", EmptyObject),
     Treatment("Copper fungicide", "chemical", EmptyObject),
     Treatment("Trichoderma", "biological", EmptyObject),
     Treatment("Garlic spray", "organic", Undefined)}

\* result.recommended_treatments: absent, or up to MaxTreatments treatments
TreatmentLists ==
    {Undefined} \cup
    {Arr(ts) : ts \in UNION {[1..n -> TreatmentSamples] : n \in 0..MaxTreatments}}

\* createTreatmentCard(treatment), for a treatment with a safety object
createTreatmentCard(treatment) ==
    [className |-> <<"treatment-card", treatment.type>>, treatment |-> treatment]

\* forEach(createTreatmentCard + appendChild): the list, and whether
\* createTreatmentCard threw on treatment.safety.PPE of a missing safety
RECURSIVE appendCards(_, _)
appendCards(list, ts) ==
    IF ts = <<>> THEN [list |-> list, threw |-> FALSE]
    ELSE IF Head(ts).safety = Undefined THEN [list |-> list, threw |-> TRUE]
    ELSE appendCards(Append(list, createTreatmentCard(Head(ts))), Tail(ts))

IsOrganic(t) == t.type = "organic"
IsChemical(t) == t.type = "chemical"

\* displayTreatments from the two filters on, given the lists to append to
showTreatments(d, treatments) ==
    LET organicTreatments == SelectSeq(treatments.v, IsOrganic)
        chemicalTreatments == SelectSeq(treatments.v, IsChemical)
        organic == appendCards(d.organicList, organicTreatments)
        chemical == appendCards(d.chemicalList, chemicalTreatments)
        d1 == IF organicTreatments # <<>>
              THEN [d EXCEPT !.organicTreatments = "block",
                             !.organicList = organic.list]
              ELSE [d EXCEPT !.organicTreatments = "none"]
        d2 == IF chemicalTreatments # <<>>
              THEN [d1 EXCEPT !.chemicalTreatments = "block",
                              !.chemicalList = chemical.list]
              ELSE [d1 EXCEPT !.chemicalTreatments = "none"]
    IN  IF organic.threw THEN [dom |-> d1, threw |-> TRUE]
        ELSE [dom |-> d2, threw |-> chemical.threw]

\* displayTreatments that does not clear the two lists first
displayTreatmentsNoClear(d, treatments) ==
    IF treatments.t # "array" THEN [dom |-> d, threw |-> TRUE]
    ELSE showTreatments(d, treatments)

\* displayTreatments(treatments): the page after it, and whether it threw
\* (treatments.filter of undefined, or createTreatmentCard)
displayTreatments(d, treatments) ==
    LET cleared == [d EXCEPT !.organicList = <<>>, !.chemicalList = <<>>]
    IN  IF treatments.t # "array" THEN [dom |-> cleared, threw |-> TRUE]
        ELSE showTreatments(cleared, treatments)

\* displayDiseaseInfo(result.disease) is called
DisplayDiseaseInfo(disease) ==
    /\ alerted = NoAlert
    /\ dom' = displayDiseaseInfo(dom, disease)
    /\ displayed' = [op |-> "displayDiseaseInfo", arg |-> disease, threw |-> FALSE,
                     overEarlier |-> dom.confidenceFill.className \cap LevelClasses # {}]
    /\ UNCHANGED <<app, readers, alerted>>

\* displayTreatments(result.recommended_treatments) is called
DisplayTreatments(treatments) ==
    /\ alerted = NoAlert
    /\ LET out == displayTreatments(dom, treatments)
       IN  /\ dom' = out.dom
           /\ displayed' = [op |-> "displayTreatments", arg |-> treatments,
                            threw |-> out.threw,
                            overEarlier |-> dom.organicList # <<>>
                                            \/ dom.chemicalList # <<>>]
    /\ UNCHANGED <<app, readers, alerted>>

InitResults == BackendAside /\ AppIdle /\ ClientIdle

NextResults ==
    \/ (\E disease \in Diseases : DisplayDiseaseInfo(disease)) /\ UNCHANGED <<serverVars, reloadVars, clientVars>>
    \/ (\E ts \in TreatmentLists : DisplayTreatments(ts)) /\ UNCHANGED <<serverVars, reloadVars, clientVars>>

SpecResults == InitResults /\ [][NextResults]_vars

(* ----------------------- PlantCareApp: the analysis --------------------- *)
(* analyzeImage from the click to the end of its try/catch. The service that *)
(* answers /api/detect is not part of the page: its answer is any of the     *)
(* results below, an error, or none. Where the buttons sit in the page is    *)
(* not in the script, so a click is possible whichever section is visible.   *)

MaxFetches == 2

\* the files dropped here: one image, and one file that is refused
AnalyzeFiles == {File("image/png", 1), File("image/gif", 1)}

\* the JSON of an ok response: a full result, a result with a warning and
\* neither heatmap nor treatments, a result whose treatment has no safety
\* object, and a result without disease
AnalyzeResults ==
    {[t |-> "object", disease |-> [name |-> "Early Blight", confidence |-> 920],
      supporting_heatmap_base64 |-> "iVBOR", notes |-> "Detected: Early Blight",
      recommended_treatments |-> Arr(<<Treatment("Neem oil", "organic", EmptyObject),
                           Treatment("Copper fungicide", "chemical", EmptyObject)>>),
      uncertainty_warning |-> "", image_warning |-> "Blurry image"],
     [t |-> "object", disease |-> [name |-> "Healthy", confidence |-> 480],
      supporting_heatmap_base64 |-> "", notes |-> "Detected: Healthy",
      recommended_treatments |-> Arr(<<>>), uncertainty_warning |-> "Low confidence", image_warning |-> ""],
     [t |-> "object", disease |-> [name |-> "Rust", confidence |-> 700],
      supporting_heatmap_base64 |-> "", notes |-> "Detected: Rust",
      recommended_treatments |-> Arr(<<Treatment("Garlic spray", "organic", Undefined)>>),
      uncertainty_warning |-> "", image_warning |-> ""],
     [t |-> "object", disease |-> Undefined, supporting_heatmap_base64 |-> "", notes |-> "",
      recommended_treatments |-> Arr(<<>>), uncertainty_warning |-> "", image_warning |-> ""]}

\* error.message in the catch: detail of an HTTP error, the default, the
\* SyntaxError of response.json(), the TypeError of fetch
AnalyzeFailures ==
    {"Model not loaded", "Analysis failed", "Unexpected token < in JSON",
     "Failed to fetch"}

\* showLoading that leaves the results section as it is
showLoadingOverResults(d) ==
    [d EXCEPT !.uploadSection = "none", !.loadingSection = "block"]

showLoading(d) ==
    [d EXCEPT !.uploadSection = "none", !.resultsSection = "none",
              !.loadingSection = "block"]

showResults(d) ==
    [d EXCEPT !.uploadSection = "none", !.loadingSection = "none",
              !.resultsSection = "block"]

displayHeatmap(d, heatmapBase64) ==
    IF heatmapBase64 # ""
    THEN [d EXCEPT !.heatmapImage = <<"data:image/png;base64,", heatmapBase64>>,
                   !.heatmapContainer = "block"]
    ELSE [d EXCEPT !.heatmapContainer = "none"]

displayWarnings(d, result) ==
    LET first == IF result.uncertainty_warning # ""
                 THEN <<result.uncertainty_warning>> ELSE <<>>
        warnings == IF result.image_warning # ""
                    THEN Append(first, result.image_warning) ELSE first
    IN  IF warnings # <<>>
        THEN [d EXCEPT !.warningsList = warnings, !.warningsSection = "block"]
        ELSE [d EXCEPT !.warningsSection = "none"]

\* displayResults(result): the page after it, and whether it threw
\* (result.disease.name of a missing disease, or displayTreatments)
displayResults(d, result) ==
    LET d1 == showResults(d)
    IN  IF result.disease = Undefined THEN [dom |-> d1, threw |-> TRUE]
        ELSE LET d2 == displayHeatmap(displayDiseaseInfo(d1, result.disease),
                                      result.supporting_heatmap_base64)
                 shown == displayTreatments(d2, result.recommended_treatments)
             IN  IF shown.threw THEN shown
                 ELSE [dom |-> displayWarnings(
                                   [shown.dom EXCEPT !.summaryText = result.notes],
                                   result),
                       threw |-> FALSE]

\* analyzeBtn 'click': analyzeImage up to the fetch
ClickAnalyze ==
    /\ alerted = NoAlert
    /\ IF app.currentImage = Null
       THEN /\ alerted' = showError("Please select an image first")
            /\ UNCHANGED <<dom, analysis>>
       ELSE /\ analysis.pending < MaxFetches
            /\ dom' = showLoading(dom)
            /\ analysis' = [analysis EXCEPT !.pending = @ + 1]
            /\ UNCHANGED alerted
    /\ UNCHANGED <<app, readers, displayed>>

\* analyzeImage after an ok response: displayResults, and the catch up to
\* its alert when rendering throws
AnalyzeSucceeds(result) ==
    /\ alerted = NoAlert
    /\ analysis.pending > 0
    /\ LET out == displayResults(dom, result)
       IN  /\ dom' = out.dom
           /\ displayed' = [op |-> "displayResults", arg |-> result,
                            threw |-> out.threw, overEarlier |-> FALSE]
           /\ analysis' = [pending |-> analysis.pending - 1, failing |-> out.threw]
           /\ alerted' = IF out.threw
                         THEN showError(<<"Analysis failed: ", "Cannot read properties of undefined">>)
                         ELSE NoAlert
    /\ UNCHANGED <<app, readers>>

\* analyzeImage after fetch or response.json() rejected or the response was
\* not ok: the catch up to its alert
AnalyzeFails(message) ==
    /\ alerted = NoAlert
    /\ analysis.pending > 0
    /\ analysis' = [pending |-> analysis.pending - 1, failing |-> TRUE]
    /\ alerted' = showError(<<"Analysis failed: ", message>>)
    /\ UNCHANGED <<app, dom, readers, displayed>>

\* an alert that returns without the showUpload of the catch
AlertClosedStaysLoading ==
    /\ alerted # NoAlert
    /\ alerted' = NoAlert
    /\ analysis' = [analysis EXCEPT !.failing = FALSE]
    /\ UNCHANGED <<app, dom, readers, displayed>>

\* alert() returns: showError is over, and in the catch showUpload follows
AlertClosed ==
    /\ alerted # NoAlert
    /\ alerted' = NoAlert
    /\ dom' = IF analysis.failing THEN showUpload(dom) ELSE dom
    /\ analysis' = [analysis EXCEPT !.failing = FALSE]
    /\ UNCHANGED <<app, readers, displayed>>

InitAnalyze == BackendAside /\ AppIdle /\ ClientIdle

NextAnalyze ==
    \/ (\E f \in AnalyzeFiles : DropFile(f)) /\ UNCHANGED <<serverVars, reloadVars, clientVars>>
    \/ (\E f \in readers : ReaderLoads(f)) /\ UNCHANGED <<serverVars, reloadVars, clientVars>>
    \/ ClickRemoveImage /\ UNCHANGED <<serverVars, reloadVars, clientVars>>
    \/ ClickNewAnalysis /\ UNCHANGED <<serverVars, reloadVars, clientVars>>
    \/ ClickAnalyze /\ UNCHANGED <<serverVars, reloadVars, advisory, detector, detecting, kb>>
    \/ (\E r \in AnalyzeResults : AnalyzeSucceeds(r)) /\ UNCHANGED <<serverVars, reloadVars, advisory, detector, detecting, kb>>
    \/ (\E m \in AnalyzeFailures : AnalyzeFails(m)) /\ UNCHANGED <<serverVars, reloadVars, advisory, detector, detecting, kb>>
    \/ AlertClosed /\ UNCHANGED <<serverVars, reloadVars, advisory, detector, detecting, kb>>

SpecAnalyze == InitAnalyze /\ [][NextAnalyze]_vars

(* --------------------------- the Advisory form -------------------------- *)
(* src/2/frontend/src/pages/Advisory.jsx against the backend above. React    *)
(* renders after every event, so the button is enabled or disabled by the    *)
(* state the event left; a disabled button submits nothing.                  *)

SOILS ==
    {Str(<<"c", "l", "a", "y">>), Str(<<"s", "a", "n", "d", "y">>),
     Str(<<"l", "o", "a", "m">>), Str(<<"s", "i", "l", "t">>)}
CROPS ==
    {Str(<<"r", "i", "c", "e">>), Str(<<"w", "h", "e", "a", "t">>),
     Str(<<"m", "a", "i", "z", "e">>), Str(<<"p", "u", "l", "s", "e", "s">>),
     Str(<<"v", "e", "g", "e", "t", "a", "b", "l", "e", "s">>)}

\* the options of the two selects, "Select soil" / "Select crop" included
SoilOptions == {Str(<<>>)} \cup SOILS
CropOptions == {Str(<<>>)} \cup CROPS
\* what the user may type as region
AdvisoryRegions == {Str(<<>>), Str(<<"P", "b">>)}

\* rules.json behind the form: absent, a table with a rule for clay and rice,
\* and a document that makes the handler throw
AdvisoryFiles ==
    {Missing,
     Json(RulesDoc(Arr(<<Rule(<< <<"c", "l", "a", "y">>, <<"r", "i", "c", "e">> >>,
                            PayloadNotes)>>))),
     Json(Null)}

\* a form that can be submitted as soon as a soil is selected
canSubmitSoilOnly(a) == Truthy(a.soilType)

\* canSubmit: soilType && crop
canSubmit(a) == Truthy(a.soilType) /\ Truthy(a.crop)

\* the button's disabled attribute
buttonDisabled(a) == ~canSubmit(a) \/ a.loading

\* onSubmit without setError('')
onSubmitKeepsError(a) ==
    IF ~canSubmit(a) THEN [state |-> a, sent |-> Undefined]
    ELSE [state |-> [a EXCEPT !.loading = TRUE, !.result = Null,
                              !.everSubmitted = TRUE],
          sent |-> [t |-> "object", soilType |-> a.soilType, crop |-> a.crop,
                    region |-> a.region]]

\* onSubmit up to the fetch: the state it sets and the body it sends
onSubmit(a) ==
    IF ~canSubmit(a) THEN [state |-> a, sent |-> Undefined]
    ELSE [state |-> [a EXCEPT !.loading = TRUE, !.error = Str(<<>>),
                              !.result = Null, !.everSubmitted = TRUE],
          sent |-> [t |-> "object", soilType |-> a.soilType, crop |-> a.crop,
                    region |-> a.region]]

\* the message of the TypeError fetch rejects with, and of the SyntaxError
\* res.json() rejects with
FailedToFetch == Str(<<"Failed to fetch">>)
UnexpectedToken == Str(<<"Unexpected token < in JSON">>)

\* catch + finally
onRejected(a, message) ==
    [a EXCEPT !.error = OrElse(message, Str(<<"Something went wrong">>)),
              !.loading = FALSE]

\* onSubmit from the response on: res.json(), the res.ok test, setResult or
\* the catch, and the finally
onResponse(a, res) ==
    IF res.threw THEN onRejected(a, UnexpectedToken)
    ELSE IF res.status < 200 \/ res.status > 299
    THEN onRejected(a, OrElse(Get(res.body, "error"), Str(<<"Request failed">>)))
    ELSE [a EXCEPT !.result = res.body, !.loading = FALSE]

SetSoilType(v) ==
    /\ v # advisory.soilType
    /\ advisory' = [advisory EXCEPT !.soilType = v]
    /\ UNCHANGED serverVars

SetCrop(v) ==
    /\ v # advisory.crop
    /\ advisory' = [advisory EXCEPT !.crop = v]
    /\ UNCHANGED serverVars

SetRegion(v) ==
    /\ v # advisory.region
    /\ advisory' = [advisory EXCEPT !.region = v]
    /\ UNCHANGED serverVars

\* the button is pressed: the form's submit event runs onSubmit
SubmitForm ==
    /\ ~buttonDisabled(advisory)
    /\ LET out == onSubmit(advisory)
       IN  /\ advisory' = out.state
           /\ IF out.sent = Undefined THEN UNCHANGED serverVars
              ELSE SendRecommend(out.sent)

\* the backend answers the form's request
AdvisoryServed ==
    /\ HandleRecommend
    /\ UNCHANGED advisory

\* the response arrives
AdvisoryReceives ==
    /\ Receive
    /\ advisory' = onResponse(advisory, response)

\* the response arrives with a body that is not JSON (cut short, or the error
\* page of something between the page and the backend)
AdvisoryReceivesGarbled ==
    /\ Receive
    /\ advisory' = onRejected(advisory, UnexpectedToken)

\* the request does not reach the backend: fetch rejects
AdvisoryFetchFails ==
    /\ inflight.route = "recommend"
    /\ inflight' = NoRequest
    /\ advisory' = onRejected(advisory, FailedToFetch)
    /\ UNCHANGED <<rulesFile, request, response, tableLoaded>>

InitAdvisory ==
    /\ rulesFile \in AdvisoryFiles
    /\ ServerIdle
    /\ ReloadIdle
    /\ startFile = NoFile
    /\ AppIdle
    /\ ClientIdle

NextAdvisory ==
    \/ (\E v \in SoilOptions : SetSoilType(v)) /\ UNCHANGED <<reloadVars, appVars, detector, detecting, analysis, kb>>
    \/ (\E v \in CropOptions : SetCrop(v)) /\ UNCHANGED <<reloadVars, appVars, detector, detecting, analysis, kb>>
    \/ (\E v \in AdvisoryRegions : SetRegion(v)) /\ UNCHANGED <<reloadVars, appVars, detector, detecting, analysis, kb>>
    \/ SubmitForm /\ UNCHANGED <<reloadVars, appVars, detector, detecting, analysis, kb>>
    \/ AdvisoryServed /\ UNCHANGED <<reloadVars, appVars, detector, detecting, analysis, kb>>
    \/ AdvisoryReceives /\ UNCHANGED <<reloadVars, appVars, detector, detecting, analysis, kb>>
    \/ AdvisoryReceivesGarbled /\ UNCHANGED <<reloadVars, appVars, detector, detecting, analysis, kb>>
    \/ AdvisoryFetchFails /\ UNCHANGED <<reloadVars, appVars, detector, detecting, analysis, kb>>

SpecAdvisory == InitAdvisory /\ [][NextAdvisory]_vars

(* -------------------------- LeafDiseaseDetector ------------------------- *)
(* src/unnamed/part_004. The detection service is not part of the page: its  *)
(* answer is any of a result, an HTTP error with or without detail, a body    *)
(* that is not JSON, and no answer at all.                                    *)

\* a MIME type is the sequence of its parts between slashes: image/png is
\* <<"image", "png">>, the empty type is <<"">>
MimeTypes ==
    {<<"image", "png">>, <<"image", "jpeg">>, <<"image", "webp">>,
     <<"text", "plain">>, <<"">>,
     <<"image">>, <<"IMAGE", "PNG">>}

\* what the user may pick or drop: images and other files, small, at 5 MB
\* and one byte above, or nothing (the dialog is cancelled)
DetectorFiles ==
    {Undefined} \cup
    {File(ty, sz) : ty \in MimeTypes,
                    sz \in {1, 5 * 1024 * 1024, 5 * 1024 * 1024 + 1}}

\* /^image\//.test(type): the type begins with "image" and a slash
IsImageType(type) == Len(type) >= 2 /\ type[1] = "image"

\* URL.createObjectURL(f)
objectURL(f) == [scheme |-> "blob", of |-> f]

\* isValid: !!file && /^image\//.test(file?.type || '')
isValid(d) == d.file # Null /\ IsImageType(d.file.type)

\* onFile that reports a bad file and keeps the selection
onFileKeepsOld(d, f) ==
    IF f = Undefined THEN d
    ELSE IF ~IsImageType(f.type)
    THEN [d EXCEPT !.error = "Invalid file. Please select an image."]
    ELSE IF f.size > 5 * 1024 * 1024
    THEN [d EXCEPT !.error = "Image too large (max 5 MB)."]
    ELSE [d EXCEPT !.error = "", !.file = f, !.preview = objectURL(f)]

onFile(d, f) ==
    IF f = Undefined THEN d
    ELSE IF ~IsImageType(f.type)
    THEN [d EXCEPT !.error = "Invalid file. Please select an image.",
                   !.file = Null, !.preview = ""]
    ELSE IF f.size > 5 * 1024 * 1024
    THEN [d EXCEPT !.error = "Image too large (max 5 MB).",
                   !.file = Null, !.preview = ""]
    ELSE [d EXCEPT !.error = "", !.file = f, !.preview = objectURL(f)]

\* the answers of POST /api/detect: data of a 2xx answer, or the message the
\* catch receives (detail of an HTTP error, none, SyntaxError, TypeError)
DetectResults ==
    {[t |-> "object", top_prediction |-> [label |-> "Early Blight", probability |-> 920]],
     [t |-> "object", top_prediction |-> [label |-> "Healthy", probability |-> 480]]}
DetectFailures ==
    {"Model not loaded", "", "Unexpected token < in JSON", "Failed to fetch"}

\* onInputChange / onDrop: onFile on the first file
SelectFile(f) ==
    /\ detector' = [onFile(detector, f) EXCEPT !.sinceReset = FALSE]
    /\ UNCHANGED detecting

\* the Analyze button is pressed: upload() up to the fetch
ClickUpload ==
    /\ ~(~isValid(detector) \/ detector.loading)
    /\ IF ~isValid(detector) THEN UNCHANGED <<detector, detecting>>
       ELSE /\ detector' = [detector EXCEPT !.loading = TRUE, !.result = Null,
                                            !.error = "",
                                            !.progressText = "Uploading...",
                                            !.sinceReset = FALSE]
            /\ detecting' = TRUE

\* reset(): 'Upload another'
ClickReset ==
    /\ detector' = [detector EXCEPT !.file = Null, !.preview = "", !.result = Null,
                                    !.error = "", !.progressText = "",
                                    !.sinceReset = TRUE]
    /\ UNCHANGED detecting

\* upload() after a 2xx answer with JSON data
DetectSucceeds(data) ==
    /\ detecting
    /\ detecting' = FALSE
    /\ detector' = [detector EXCEPT !.progressText = "Processing complete",
                                    !.result = data, !.loading = FALSE]

\* upload() after fetch or res.json() rejected, or the answer was not ok:
\* the catch and the finally
DetectFails(message) ==
    /\ detecting
    /\ detecting' = FALSE
    /\ detector' = [detector EXCEPT
                        !.error = IF message # "" THEN message
                                  ELSE "Upload failed. Try again later.",
                        !.loading = FALSE]

InitDetector == BackendAside /\ AppIdle /\ ClientIdle

NextDetector ==
    \/ (\E f \in DetectorFiles : SelectFile(f)) /\ UNCHANGED <<serverVars, reloadVars, appVars, advisory, analysis, kb>>
    \/ ClickUpload /\ UNCHANGED <<serverVars, reloadVars, appVars, advisory, analysis, kb>>
    \/ ClickReset /\ UNCHANGED <<serverVars, reloadVars, appVars, advisory, analysis, kb>>
    \/ (\E data \in DetectResults : DetectSucceeds(data)) /\ UNCHANGED <<serverVars, reloadVars, appVars, advisory, analysis, kb>>
    \/ (\E m \in DetectFailures : DetectFails(m)) /\ UNCHANGED <<serverVars, reloadVars, appVars, advisory, analysis, kb>>

SpecDetector == InitDetector /\ [][NextDetector]_vars

(* ----------------------- the disease knowledge base --------------------- *)

\* most entries of diseases.json
MaxDiseases == 2

\* String(n) for a non-negative integer: its decimal digits
RECURSIVE NumberToString(_)
NumberToString(n) ==
    LET Digits == <<"0", "1", "2", "3", "4", "5", "6", "7", "8", "9">>
    IN  IF n < 10 THEN <<Digits[n + 1]>>
        ELSE NumberToString(n \div 10) \o <<Digits[(n % 10) + 1]>>

\* a ?? b
Coalesce(a, b) == IF a.t \in {"undefined", "null"} THEN b ELSE a

\* a === b : values of different types are never equal
StrictEquals(a, b) == a.t = b.t /\ a = b

\* `${v}` for a string or a number
TemplateString(v) == IF v.t = "number" THEN NumberToString(v.v) ELSE v.v

\* String.prototype.trim
RECURSIVE Trim(_)
Trim(s) ==
    IF s = <<>> THEN s
    ELSE IF Head(s) = " " THEN Trim(Tail(s))
    ELSE IF s[Len(s)] = " " THEN Trim(SubSeq(s, 1, Len(s) - 1))
    ELSE s

\* String.prototype.includes
Includes(hay, needle) ==
    \E i \in 0..(Len(hay) - Len(needle)) : SubSeq(hay, i + 1, i + Len(needle)) = needle

\* the value of the first option of the crop dropdown, and its text
AllValue == Str(<<"a", "l", "l">>)
AllCrops == Str(<<"A", "l", "l", " ", "c", "r", "o", "p", "s">>)

\* entries of diseases.json; a property an entry does not have reads as
\* undefined, and only the properties the list filter and the lookup read are
\* kept. Entries without an id, with a string id (among them the decimal of a
\* position, and ''), with a numeric id; with and without cropName; one crop
\* is named like the value of the 'All crops' option.
RawItems ==
    LET RawItem(id, cropName, diseaseName) ==
            [t |-> "object", id |-> id, cropName |-> cropName,
             diseaseName |-> diseaseName]
        Rice == Str(<<"R", "i", "c", "e">>)
        Wheat == Str(<<"W", "h", "e", "a", "t">>)
    IN  {RawItem(Undefined, Rice, Str(<<"B", "l", "a", "s", "t">>)),
         RawItem(Undefined, Wheat, Str(<<"R", "u", "s", "t">>)),
         RawItem(Str(<<"2">>), Rice, Str(<<"R", "u", "s", "t">>)),
         RawItem([t |-> "number", v |-> 1], Wheat, Str(<<"S", "m", "u", "t">>)),
         RawItem(Null, Undefined, Str(<<"R", "o", "t">>)),
         RawItem(Str(<<"x">>), AllValue, Str(<<"B", "l", "a", "s", "t">>)),
         RawItem(Str(<<>>), Wheat, Str(<<"R", "o", "t">>))}

\* diseases.json: an array of entries
DataSets == UNION {[1..n -> RawItems] : n \in 0..MaxDiseases}

\* what the user types in the search box
Queries ==
    {<<>>, <<" ">>, <<"r">>, <<" ", "R", "U", " ">>, <<"t", " ", "r">>, <<"z">>}

getDiseases(raw) ==
    [idx \in 1..Len(raw) |->
        [id |-> Coalesce(raw[idx].id, Str(NumberToString(idx))),
         cropName |-> Coalesce(raw[idx].cropName, Str(<<>>)),
         diseaseName |-> Coalesce(raw[idx].diseaseName, Str(<<>>))]]

\* DiseaseListPage rendered with the state (q, crop); chosen is the text of
\* the dropdown option the user picked. The options of the dropdown are 'All
\* crops', then one option per distinct cropName (their order does not matter
\* here).
DiseaseListPage(raw, q, crop, chosen) ==
    LET all == getDiseases(raw)
        crops == {all[i].cropName : i \in 1..Len(all)}
        matchesText(d) ==
            Includes(ToLowerCase(d.diseaseName.v \o <<" ">> \o d.cropName.v),
                     ToLowerCase(Trim(q)))
        matchesCrop(d) ==
            IF crop = AllValue THEN TRUE ELSE StrictEquals(d.cropName, crop)
        list == SelectSeq(all, LAMBDA d : matchesText(d) /\ matchesCrop(d))
    IN  [page |-> "list", raw |-> raw, q |-> q, crop |-> crop, chosen |-> chosen,
         options |-> {[value |-> AllValue, label |-> AllCrops]} \cup
                     {[value |-> c, label |-> c] : c \in crops},
         cards |-> list, count |-> Len(list),
         opened |-> Undefined, shown |-> Undefined]

\* DiseaseDetailsPage rendered for the id parameter: the first disease whose
\* id is strictly equal to it, or 'Not found'
DiseaseDetailsPage(raw, id) ==
    LET all == getDiseases(raw)
        found == {i \in 1..Len(all) : StrictEquals(all[i].id, id)}
    IN  IF found = {} THEN Undefined
        ELSE all[CHOOSE i \in found : \A j \in found : i <= j]

TypeQuery(text) ==
    /\ kb.page = "list"
    /\ kb' = DiseaseListPage(kb.raw, text, kb.crop, kb.chosen)

ChooseCrop(option) ==
    /\ kb.page = "list"
    /\ option \in kb.options
    /\ kb' = DiseaseListPage(kb.raw, kb.q, option.value, option.label)

\* a click on the i-th card: the router leaves the list page and renders the
\* route that the card's link `/disease/${item.id}` matches. The segment after
\* /disease/ is the id parameter of 'disease/:id', and an empty segment
\* matches no route; the ids here have no character that a URL encodes.
OpenCard(i) ==
    /\ kb.page = "list"
    /\ i \in 1..Len(kb.cards)
    /\ LET segment == TemplateString(kb.cards[i].id)
           id == IF segment = <<>> THEN Undefined ELSE Str(segment)
           shown == DiseaseDetailsPage(kb.raw, id)
       IN  kb' = [page |-> IF id = Undefined THEN "no route"
                           ELSE IF shown = Undefined THEN "Not found"
                           ELSE "details",
                  raw |-> kb.raw, q |-> <<>>, crop |-> AllValue, chosen |-> AllCrops,
                  options |-> {}, cards |-> <<>>, count |-> 0,
                  opened |-> kb.cards[i], shown |-> shown]

\* the Back link, or the browser's back button: the list page is mounted anew
Back ==
    /\ kb.page \in {"details", "Not found", "no route"}
    /\ kb' = DiseaseListPage(kb.raw, <<>>, AllValue, AllCrops)

InitKb ==
    /\ BackendAside
    /\ AppIdle
    /\ advisory = AdvisoryStart
    /\ detector = DetectorStart
    /\ detecting = FALSE
    /\ analysis = [pending |-> 0, failing |-> FALSE]
    /\ \E raw \in DataSets : kb = DiseaseListPage(raw, <<>>, AllValue, AllCrops)

NextKb ==
    \/ (\E text \in Queries : TypeQuery(text)) /\ UNCHANGED <<serverVars, reloadVars, appVars, advisory, detector, detecting, analysis>>
    \/ (\E option \in kb.options : ChooseCrop(option)) /\ UNCHANGED <<serverVars, reloadVars, appVars, advisory, detector, detecting, analysis>>
    \/ (\E i \in 1..MaxDiseases : OpenCard(i)) /\ UNCHANGED <<serverVars, reloadVars, appVars, advisory, detector, detecting, analysis>>
    \/ Back /\ UNCHANGED <<serverVars, reloadVars, appVars, advisory, detector, detecting, analysis>>

SpecKb == InitKb /\ [][NextKb]_vars

(* ------------------------- reading an exchange ------------------------- *)

\* the state holds a completed POST /api/recommend exchange
Answered == response # NoResponse /\ request.route = "recommend"

\* a field of the submitted body, undefined when it (or the body) is absent
Submitted(name) == Get(OrElse(request.body, EmptyObject), name)

\* soilType and crop are both present and non-empty
ValidQuery == Truthy(Submitted("soilType")) /\ Truthy(Submitted("crop"))

QuerySoil == ToLowerCase(Submitted("soilType").v)
QueryCrop == ToLowerCase(Submitted("crop").v)

\* the file holds a rule table: {"rules": [...]} whose entries are all rule objects
WellFormed(file) ==
    /\ file.kind = "json"
    /\ file.value.t = "object"
    /\ Get(file.value, "rules").t = "array"
    /\ \A i \in DOMAIN file.value.rules.v : file.value.rules.v[i].t = "object"

\* the rule table of a well-formed file
TableOf(file) == file.value.rules.v

\* rule r is stored under exactly the key (soil, crop)
HasKey(r, soil, crop) == r.soil = Str(soil) /\ r.crop = Str(crop)

\* rule r is stored under the key (soil, crop) up to letter case
HasKeyIgnoringCase(r, soil, crop) ==
    /\ ToLowerCase(r.soil.v) = soil
    /\ ToLowerCase(r.crop.v) = crop

\* the recommendation carries the three advisory texts of rule r
CarriesTextsOf(r) ==
    /\ response.body.recommendation.sowingTime = r.sowingTime
    /\ response.body.recommendation.irrigation = r.irrigation
    /\ response.body.recommendation.fertilizer = r.fertilizer

\* the query, lowercased, is the key of some rule of the table in the file
QueryInTable ==
    /\ Answered /\ ValidQuery /\ WellFormed(rulesFile)
    /\ \E i \in DOMAIN TableOf(rulesFile) :
           HasKey(TableOf(rulesFile)[i], QuerySoil, QueryCrop)

\* the query, lowercased, is the key of no rule of the table in the file
QueryNotInTable ==
    /\ Answered /\ ValidQuery /\ WellFormed(rulesFile)
    /\ \A i \in DOMAIN TableOf(rulesFile) :
           ~HasKey(TableOf(rulesFile)[i], QuerySoil, QueryCrop)

(* -------------------------------- claims ------------------------------- *)

\* C1: for every rule table and every request whose non-empty soilType and
\* crop, once lowercased, are the key of some rule of the table, the response
\* is OK and carries the sowingTime, irrigation and fertilizer stored in a rule
\* under that key, whatever the letter case submitted.
C1_MatchReturnsStoredTexts ==
    QueryInTable =>
        /\ response.status = 200
        /\ \E i \in DOMAIN TableOf(rulesFile) :
               /\ HasKey(TableOf(rulesFile)[i], QuerySoil, QueryCrop)
               /\ CarriesTextsOf(TableOf(rulesFile)[i])

\* C1 witness: a query submitted in capitals was answered from a stored rule.
C1_Witness ==
    /\ QueryInTable
    /\ Submitted("soilType").v # QuerySoil
    /\ Submitted("crop").v # QueryCrop
    /\ response.status = 200
    /\ response.body.recommendation.sowingTime = PayloadNotes.sowingTime

\* C2: the claim as stated: the table's soil and crop are lowercased too, so a
\* rule stored with capitals is matched by every query equal to it ignoring case.
C2_TableSideLowercased ==
    (/\ Answered /\ ValidQuery /\ WellFormed(rulesFile)
     /\ \E i \in DOMAIN TableOf(rulesFile) :
            HasKeyIgnoringCase(TableOf(rulesFile)[i], QuerySoil, QueryCrop))
    => /\ response.status = 200
       /\ \E i \in DOMAIN TableOf(rulesFile) :
              /\ HasKeyIgnoringCase(TableOf(rulesFile)[i], QuerySoil, QueryCrop)
              /\ CarriesTextsOf(TableOf(rulesFile)[i])

\* C2 (amended): matching is case-insensitive on the query's side only: the
\* query is lowercased and compared with soil and crop exactly as stored. When
\* a rule equals the query ignoring case, the response carries the texts of a
\* rule stored under the lowercased key if the table has one, and is the
\* generic fallback otherwise: a rule stored with capitals is never matched.
C2_OnlyQuerySideLowercased ==
    (/\ Answered /\ ValidQuery /\ WellFormed(rulesFile)
     /\ \E i \in DOMAIN TableOf(rulesFile) :
            HasKeyIgnoringCase(TableOf(rulesFile)[i], QuerySoil, QueryCrop))
    => /\ response.status = 200
       /\ IF \E j \in DOMAIN TableOf(rulesFile) :
                 HasKey(TableOf(rulesFile)[j], QuerySoil, QueryCrop)
          THEN \E j \in DOMAIN TableOf(rulesFile) :
                   /\ HasKey(TableOf(rulesFile)[j], QuerySoil, QueryCrop)
                   /\ CarriesTextsOf(TableOf(rulesFile)[j])
          ELSE response.body.recommendation = GenericRecommendation

\* C2 witness: the only rule equal to the query ignoring case is stored with a
\* capital, and the response is the generic fallback.
C2_Witness ==
    /\ Answered /\ ValidQuery /\ WellFormed(rulesFile)
    /\ \E i \in DOMAIN TableOf(rulesFile) :
           /\ HasKeyIgnoringCase(TableOf(rulesFile)[i], QuerySoil, QueryCrop)
           /\ TableOf(rulesFile)[i].soil # Str(QuerySoil)
    /\ \A j \in DOMAIN TableOf(rulesFile) :
           ~HasKey(TableOf(rulesFile)[j], QuerySoil, QueryCrop)
    /\ response.body.recommendation = GenericRecommendation

\* C3: a request with non-empty soilType and crop whose lowercased pair is the
\* key of no rule of the table is answered OK with the one generic fallback
\* recommendation, whose notes say that no exact match was found.
C3_NoMatchGivesGenericFallback ==
    QueryNotInTable =>
        /\ response.status = 200
        /\ response.body.recommendation = GenericRecommendation
        /\ response.body.recommendation.notes =
               Str(<<"No exact match found. Displaying generic guidance.">>)

\* C3 witness: a non-empty table was searched and held no rule for the query.
C3_Witness ==
    /\ QueryNotInTable
    /\ Len(TableOf(rulesFile)) = MaxRules
    /\ \E i \in DOMAIN TableOf(rulesFile) :
           TableOf(rulesFile)[i].soil = Str(QuerySoil)
    /\ response.body.recommendation = GenericRecommendation

\* C4: a request whose soilType or crop is missing or empty is answered 400
\* with an error message; the rule table is not loaded for it and the body
\* holds no recommendation.
C4_MissingFieldIsRejected ==
    (Answered /\ ~ValidQuery) =>
        /\ response.status = 400
        /\ Truthy(Get(response.body, "error"))
        /\ Get(response.body, "recommendation") = Undefined
        /\ ~tableLoaded

\* C4 witness: a request with a soil type and an empty crop was rejected.
C4_Witness ==
    /\ Answered
    /\ Truthy(Submitted("soilType"))
    /\ Submitted("crop") = Str(<<>>)
    /\ response.status = 400

\* C5: the claim as stated: whatever unreadable or malformed content the rules
\* file has, every request with non-empty soilType and crop is answered OK
\* with the generic fallback and the handler does not throw.
C5_BadTableNeverFails ==
    (Answered /\ ValidQuery /\ ~WellFormed(rulesFile)) =>
        /\ ~response.threw
        /\ response.status = 200
        /\ response.body.recommendation = GenericRecommendation

\* C6: when reading or parsing the rules file fails, loadRules yields the empty
\* rule set and the request is answered OK with the generic fallback, not with
\* an error status.
C6_LoadFailureDegradesToFallback ==
    (Answered /\ ValidQuery /\ rulesFile.kind \in {"missing", "garbage"}) =>
        /\ tableLoaded
        /\ Get(loadRules(rulesFile), "rules") = Arr(<<>>)
        /\ ~response.threw
        /\ response.status = 200
        /\ response.body.recommendation = GenericRecommendation

\* C6 witness: a valid request was served while rules.json held no JSON.
C6_Witness ==
    /\ Answered /\ ValidQuery
    /\ rulesFile = Garbage
    /\ response.status = 200

\* the index of the first rule of the table stored under the key
FirstIndex(table, soil, crop) ==
    CHOOSE i \in DOMAIN table :
        /\ HasKey(table[i], soil, crop)
        /\ \A j \in 1..(i - 1) : ~HasKey(table[j], soil, crop)

\* C7: first match wins: when several rules of the table are stored under the
\* key of the query, the response carries the texts of the first of them in
\* table order.
C7_FirstMatchWins ==
    QueryInTable =>
        /\ response.status = 200
        /\ CarriesTextsOf(
               TableOf(rulesFile)[FirstIndex(TableOf(rulesFile), QuerySoil, QueryCrop)])

\* C7 witness: two rules under the key of the query with different texts, and
\* the response carries the texts of the first.
C7_Witness ==
    /\ QueryInTable
    /\ Len(TableOf(rulesFile)) >= 2
    /\ HasKey(TableOf(rulesFile)[1], QuerySoil, QueryCrop)
    /\ HasKey(TableOf(rulesFile)[2], QuerySoil, QueryCrop)
    /\ TableOf(rulesFile)[1].sowingTime # TableOf(rulesFile)[2].sowingTime
    /\ response.body.recommendation.sowingTime = TableOf(rulesFile)[1].sowingTime

\* C8: in every OK response, matched or fallback, region is the submitted
\* region unchanged when one was supplied and the empty string when it was
\* omitted.
C8_RegionEchoedUnchanged ==
    (Answered /\ response.status = 200) =>
        response.body.region =
            IF Submitted("region") = Undefined THEN Str(<<>>)
            ELSE Submitted("region")

\* C8 witness: a region with a capital and a leading space was echoed in a
\* matched response.
C8_Witness ==
    /\ QueryInTable
    /\ response.status = 200
    /\ Submitted("region") = Str(<<" ", "P", "b">>)
    /\ response.body.region = Str(<<" ", "P", "b">>)

C10_KeysEchoedLowercased ==
    (Answered /\ response.status = 200) =>
        /\ response.body.soilType = Str(ToLowerCase(Submitted("soilType").v))
        /\ response.body.crop = Str(ToLowerCase(Submitted("crop").v))

\* C10 witness: a fallback response to a query submitted in capitals.
C10_Witness ==
    /\ QueryNotInTable
    /\ response.status = 200
    /\ Submitted("soilType").v # QuerySoil
    /\ Submitted("crop").v # QueryCrop
    /\ response.body.soilType = Str(QuerySoil)

\* C11: the claim as stated: in a matched response notes is null exactly when
\* the matched rule has no notes field, and is otherwise the rule's notes value
\* unchanged, the empty string included.
C11_NotesPassedThroughVerbatim ==
    QueryInTable =>
        LET r == TableOf(rulesFile)[FirstIndex(TableOf(rulesFile), QuerySoil, QueryCrop)]
        IN  /\ response.status = 200
            /\ response.body.recommendation.notes =
                   IF "notes" \in DOMAIN r THEN r.notes ELSE Null

\* the properties of an object that JSON.stringify writes: those whose value is
\* not undefined
JsonKeys(o) == {k \in DOMAIN o \ {"t"} : o[k] # Undefined}

\* every rule object of the table carries the required fields of the data model
CarriesRequiredFields(file) ==
    WellFormed(file) =>
        \A i \in DOMAIN TableOf(file) :
            \A k \in {"soil", "crop", "sowingTime", "irrigation", "fertilizer"} :
                Get(TableOf(file)[i], k).t = "string"

\* C12: every OK response to /api/recommend has the one Recommendation shape,
\* whichever branch produced it: exactly soilType, crop, region and
\* recommendation, the latter with exactly sowingTime, irrigation, fertilizer
\* and notes, for every table whose rules carry the required fields.
C12_OneResponseShape ==
    (Answered /\ response.status = 200 /\ CarriesRequiredFields(rulesFile)) =>
        /\ JsonKeys(response.body) = {"soilType", "crop", "region", "recommendation"}
        /\ JsonKeys(response.body.recommendation) =
               {"sowingTime", "irrigation", "fertilizer", "notes"}

\* C12 witness: a matched response built from a rule that has no notes.
C12_Witness ==
    /\ QueryInTable
    /\ response.status = 200
    /\ "notes" \notin DOMAIN
           TableOf(rulesFile)[FirstIndex(TableOf(rulesFile), QuerySoil, QueryCrop)]
    /\ response.body.recommendation.notes = Null

\* C14: handling has no side effects: a step that sends, handles or completes
\* a request leaves the rules file, the only state of the server that outlives
\* a request, unchanged.
C14_HandlingHasNoSideEffects ==
    [][(inflight' # inflight \/ response' # response) => rulesFile' = rulesFile]_vars

\* C14 witness: a valid request was served while rules.json could not be read,
\* and the file is as it was.
C14_Witness ==
    /\ Answered /\ ValidQuery
    /\ rulesFile = Missing
    /\ tableLoaded
    /\ response.status = 200


C16_ResponseFromOneCompleteVersion ==
    (Answered /\ tableLoaded) =>
        \E v \in loadedFrom.complete : response = recommend(v, request.body).res


\* C17: handleFileSelect accepts a file (starts reading it, with no alert)
\* exactly when its type is image/jpeg, image/jpg or image/png and its size
\* is at most 8 MB; every other file gets an alert, and currentImage, the
\* preview and the Analyze button stay as they were.
C17_AcceptsExactlyValidImages ==
    [][\A f \in SelectableFiles :
          (ChooseFile(f) \/ DropFile(f)) =>
              IF /\ f.type \in {"image/jpeg", "image/jpg", "image/png"}
                 /\ f.size <= 8388608
              THEN alerted' = NoAlert /\ f \in readers'
              ELSE /\ alerted' # NoAlert
                   /\ readers' = readers
                   /\ app'.currentImage = app.currentImage
                   /\ dom'.uploadArea = dom.uploadArea
                   /\ dom'.imagePreview = dom.imagePreview
                   /\ dom'.previewImage = dom.previewImage
                   /\ dom'.analyzeBtn = dom.analyzeBtn]_vars

\* a file was rejected while an image is selected and previewed
C17_Witness ==
    /\ alerted # NoAlert
    /\ app.currentImage # Null
    /\ app.currentImage.size = 8388608
    /\ dom.imagePreview = "block"
    /\ dom.analyzeBtn.disabled = FALSE

\* C18: the Analyze button is enabled exactly when currentImage is set, and
\* currentImage is set exactly when the preview is shown and the upload area
\* hidden; with no image the upload area is shown and the preview hidden.
C18_PreviewButtonImageAgree ==
    /\ (dom.analyzeBtn.disabled = FALSE) <=> (app.currentImage # Null)
    /\ (app.currentImage # Null) <=>
           (dom.imagePreview = "block" /\ dom.uploadArea = "none")
    /\ (app.currentImage = Null) <=>
           (dom.imagePreview = "none" /\ dom.uploadArea = "block")

\* an image is previewed while another read is still at work, after the
\* file input had been cleared by a removal
C18_Witness ==
    /\ app.currentImage # Null
    /\ dom.analyzeBtn.disabled = FALSE
    /\ dom.imagePreview = "block"
    /\ dom.imageInput = ""
    /\ readers # {}


OfType(type) ==
    LET HasType(t) == t.type = type
    IN  SelectSeq(displayed.arg.v, HasType)

\* the cards of a list are those of the given treatments, one each, in order
CardsAre(list, treatments) ==
    /\ Len(list) = Len(treatments)
    /\ \A i \in 1..Len(list) : list[i].treatment = treatments[i]

C21_FormNeverSendsInvalid ==
    /\ inflight.route = "recommend" =>
           /\ inflight.body.soilType.t = "string" /\ inflight.body.soilType.v # <<>>
           /\ inflight.body.crop.t = "string" /\ inflight.body.crop.v # <<>>
    /\ response # NoResponse => response.status # 400
    /\ advisory.error # Str(<<"Missing required fields: soilType and crop">>)

\* a request of the form has been answered by the backend
C21_Witness ==
    /\ advisory.loading
    /\ request.route = "recommend"
    /\ response.status = 200
    /\ request.body.soilType = Str(<<"c", "l", "a", "y">>)
    /\ request.body.region = Str(<<>>)

\* C22: the Advisory page never holds a result and an error together; once
\* something was submitted and loading is false, it holds exactly one of
\* them; loading is true exactly while a request is on its way.
C22_ResultXorError ==
    LET hasResult == advisory.result # Null
        hasError == advisory.error # Str(<<>>)
    IN  /\ ~(hasResult /\ hasError)
        /\ (advisory.everSubmitted /\ ~advisory.loading) => (hasResult \/ hasError)
        /\ advisory.loading <=> (inflight # NoRequest \/ response # NoResponse)

\* a submission has ended with the matched recommendation on the page
C22_Witness ==
    /\ advisory.everSubmitted
    /\ ~advisory.loading
    /\ advisory.result # Null
    /\ advisory.result.recommendation.notes = Str(<<"d", "r", "y">>)


\* C23: onFile makes a file the selected file exactly when its type starts
\* with image/ and its size is at most 5 MB; any other file sets an error and
\* clears the selected file and the preview; the Analyze button is enabled
\* only while a valid image is selected.
C23_OnlyValidImageSelected ==
    /\ [](~(~isValid(detector) \/ detector.loading) =>
              /\ detector.file # Null
              /\ detector.file.type[1] = "image" /\ Len(detector.file.type) > 1
              /\ detector.file.size <= 5242880)
    /\ [][\A f \in DetectorFiles \ {Undefined} :
              SelectFile(f) =>
                  IF /\ Len(f.type) > 1 /\ f.type[1] = "image"
                     /\ f.size <= 5242880
                  THEN detector'.file = f /\ detector'.error = ""
                  ELSE /\ detector'.file = Null
                       /\ detector'.preview = ""
                       /\ detector'.error # ""]_vars

\* a file that is not an image has replaced a selected image while an upload
\* of that image is on its way
C23_Witness ==
    /\ detecting
    /\ detector.file = Null
    /\ detector.preview = ""
    /\ detector.error = "Invalid file. Please select an image."

\* C24: after reset, until the user picks a file or presses Analyze again,
\* the page shows no result and no error.
C24_NothingShownAfterReset ==
    detector.sinceReset => (detector.result = Null /\ detector.error = "")

\* C25: the progress text says 'Uploading...' only while loading is true.
C25_UploadingOnlyWhileLoading ==
    detector.progressText = "Uploading..." => detector.loading


\* C26: exactly one of the upload, loading and results sections is visible.
C26_ExactlyOneSection ==
    /\ {dom.uploadSection, dom.loadingSection, dom.resultsSection} \subseteq {"block", "none"}
    /\ Cardinality({sec \in {"uploadSection", "loadingSection", "resultsSection"} :
                        dom[sec] = "block"}) = 1

\* the results of an analysis are shown while another request is on its way
C26_Witness ==
    /\ dom.resultsSection = "block"
    /\ dom.organicList # <<>>
    /\ analysis.pending > 0

\* C27: analyzeImage without an image alerts, sends nothing and changes no
\* section; with an image it shows the loading section and sends a request.
\* When a request completes, success shows the results section, and every
\* failure (a rendering exception included) alerts and then shows the upload
\* section, with currentImage untouched. The loading section is visible only
\* while a request is on its way or the failure alert is still open.
C27_AnalyzeLeavesLoading ==
    /\ [](dom.loadingSection = "block" => (analysis.pending > 0 \/ analysis.failing))
    /\ [][/\ (ClickAnalyze /\ app.currentImage = Null) =>
               /\ alerted' # NoAlert
               /\ analysis' = analysis
               /\ dom' = dom
          /\ analysis'.pending > analysis.pending =>
               /\ app.currentImage # Null
               /\ dom'.loadingSection = "block"
               /\ alerted' = NoAlert
          /\ analysis'.pending < analysis.pending =>
               /\ app' = app
               /\ IF analysis'.failing
                  THEN alerted' # NoAlert
                  ELSE /\ dom'.resultsSection = "block"
                       /\ dom'.loadingSection = "none"
                       /\ alerted' = NoAlert
          /\ (analysis.failing /\ ~analysis'.failing) =>
               /\ app' = app
               /\ dom'.uploadSection = "block"
               /\ dom'.loadingSection = "none"
               /\ dom'.resultsSection = "none"]_vars

\* after a result that could not be rendered the upload section is back,
\* the image is still selected and Analyze is enabled
C27_Witness ==
    /\ displayed.op = "displayResults"
    /\ displayed.threw
    /\ alerted = NoAlert
    /\ analysis = [pending |-> 0, failing |-> FALSE]
    /\ dom.uploadSection = "block"
    /\ app.currentImage # Null
    /\ dom.analyzeBtn.disabled = FALSE

\* the ids getDiseases produces are strings
IdsAreStrings ==
    \A i \in DOMAIN getDiseases(kb.raw) : getDiseases(kb.raw)[i].id.t = "string"

\* the ids getDiseases produces are pairwise distinct
IdsAreDistinct ==
    \A i, j \in DOMAIN getDiseases(kb.raw) :
        i # j => getDiseases(kb.raw)[i].id # getDiseases(kb.raw)[j].id

\* the page a card has opened displays the disease of that card
OpenedIsShown ==
    kb.page # "list" => (kb.page = "details" /\ kb.shown = kb.opened)

\* C28: for every data set, the card of a disease d opens a details page that
\* displays d (never 'Not found', never another disease): the ids produced by
\* getDiseases are strings, pairwise distinct, and the lookup by id finds d,
\* also when some entries have their own id and others the default index+1.
C28_CardOpensItsDisease ==
    /\ IdsAreStrings
    /\ IdsAreDistinct
    /\ OpenedIsShown

\* the positions of the diseases the list page has to show: the text
\* 'diseaseName cropName', lowercased, contains the trimmed lowercased query,
\* and the crop is the one picked in the dropdown
Wanted ==
    LET all == getDiseases(kb.raw)
        needle == ToLowerCase(Trim(kb.q))
    IN  {i \in DOMAIN all :
            /\ \E from \in 1..(Len(all[i].diseaseName.v) + Len(all[i].cropName.v) + 2) :
                 \A k \in 1..Len(needle) :
                    /\ from + k - 1 <= Len(all[i].diseaseName.v) + Len(all[i].cropName.v) + 1
                    /\ ToLowerCase(all[i].diseaseName.v \o <<" ">> \o all[i].cropName.v)[from + k - 1]
                         = needle[k]
            /\ kb.chosen # AllCrops => all[i].cropName = kb.chosen}

\* the cards are the wanted diseases, in the order of the data set
CardsAreWanted ==
    /\ Len(kb.cards) = Cardinality(Wanted)
    /\ \A k \in 1..Len(kb.cards) :
          kb.cards[k] = getDiseases(kb.raw)[CHOOSE i \in Wanted :
                                               Cardinality({j \in Wanted : j < i}) = k - 1]

\* with an empty query and 'All crops' every disease is shown
EverythingByDefault ==
    (kb.q = <<>> /\ kb.chosen = AllCrops) => kb.cards = getDiseases(kb.raw)

\* a crop picked in the dropdown shows only diseases of that crop
OnlyChosenCrop ==
    kb.chosen # AllCrops => \A k \in 1..Len(kb.cards) : kb.cards[k].cropName = kb.chosen

CountIsCards == kb.count = Len(kb.cards)

\* C29: the list shown is exactly the diseases, in their original order, whose
\* lowercased 'diseaseName cropName' contains the trimmed lowercased query and
\* whose cropName is the crop chosen in the dropdown (every crop for 'All
\* crops'); an empty query with 'All crops' shows every disease; a crop chosen
\* in the dropdown shows only diseases of that crop; the result count is the
\* number of cards.
C29_ListIsTheFilter ==
    kb.page = "list" =>
        /\ CardsAreWanted
        /\ EverythingByDefault
        /\ OnlyChosenCrop
        /\ CountIsCards

====
